---- MODULE Spec2Model ----
(***************************************************************************)
(* Model of the PagerDuty button platform of ha_pagerduty                  *)
(* (custom_components/pagerduty/button.py): the startup sweep of orphaned  *)
(* entity-registry records, the reconciliation callback                    *)
(* async_add_remove_buttons that keeps one acknowledge button per          *)
(* triggered incident, and the press handler of a button.                  *)
(*                                                                         *)
(* Python values: a str s is <<"str", s>>, None is <<"NoneType">>, so that *)
(* None and the text "None" stay different values the way they are in      *)
(* Python.  An incident is a record (a dict); a key the dict lacks is a    *)
(* field the record lacks.                                                 *)
(***************************************************************************)
EXTENDS Integers, Sequences, FiniteSets, TLC

VARIABLES
    registry,        \* entity registry: the persisted records (er)
    data,            \* coordinator.data["incidents"], the current snapshot
    setup,           \* position of async_setup_entry
    tracked_buttons, \* the dict of async_setup_entry: incident id -> handle
    buttons,         \* every PagerDutyAcknowledgeButton constructed, by handle
    platform,        \* per handle: what the host holds ("added" / "removed")
    tasks,           \* removal tasks created with hass.async_create_task, pending
    removals,        \* per handle: number of async_remove tasks ever created
    press,           \* per handle: state of async_press
    refresh_pending, \* coordinator: a requested refresh has not run yet
    removed_records, \* records the sweep removed from the registry
    repeat,          \* the latest pass ran over the snapshot of the pass before it
    entry_data,      \* entry.data of the config entry, the keys the model reads
    entry_options    \* entry.options of the config entry

vars == <<registry, data, setup, tracked_buttons, buttons, platform, tasks,
          removals, press, refresh_pending, removed_records, repeat,
          entry_data, entry_options>>

----------------------------------------------------------------------------
(* Bounds *)

MaxIncidents == 2      \* longest snapshot
MaxButtons == 2        \* button objects constructed in one run
MaxPresses == 2        \* presses started in one run

----------------------------------------------------------------------------
(* Python values *)

None == <<"NoneType">>

PyStr(s) == <<"str", s>>

\* dict.get(key, default)
Get(d, key, default) == IF key \in DOMAIN d THEN d[key] ELSE default

\* f"{v}" for a str, for an int (held as its decimal digits) or for None
Format(v) == IF v = None THEN "None" ELSE v[2]

\* s.startswith(p)
StartsWith(s, p) == Len(s) >= Len(p) /\ SubSeq(s, 1, Len(p)) = p

AckPrefix == "pagerduty_ack_"

\* f"pagerduty_ack_{incident_id}"
UniqueId(incident_id) == AckPrefix \o Format(incident_id)

----------------------------------------------------------------------------
(* Inputs *)

\* The incidents a snapshot is drawn from: two ids, one of them in two
\* statuses, and an entry without an "id" key.
Incidents ==
    { [id |-> PyStr("A"), status |-> "triggered", title |-> "t1"],
      [id |-> PyStr("A"), status |-> "acknowledged", title |-> "t1"],
      [id |-> PyStr("B"), status |-> "triggered", title |-> "t1"],
      [status |-> "triggered", title |-> "t1"] }

\* The incidents of the runs that watch the display attributes: one incident
\* under two titles and in two statuses, and a second incident.
RetitledIncidents ==
    { [id |-> PyStr("A"), status |-> "triggered", title |-> "t1",
       incident_number |-> <<"int", "101">>, service |-> [summary |-> "s1"]],
      [id |-> PyStr("A"), status |-> "triggered", title |-> "t2",
       incident_number |-> <<"int", "102">>, service |-> [summary |-> "s2"]],
      [id |-> PyStr("A"), status |-> "acknowledged", title |-> "t1",
       incident_number |-> <<"int", "101">>, service |-> [summary |-> "s1"]],
      [id |-> PyStr("B"), status |-> "triggered", title |-> "t1",
       incident_number |-> <<"int", "201">>, service |-> [summary |-> "s1"]] }

RECURSIVE SeqsUpTo(_, _)
SeqsUpTo(S, n) ==
    IF n = 0 THEN {<<>>}
    ELSE LET shorter == SeqsUpTo(S, n - 1)
         IN  shorter \cup {Append(s, e) : s \in {t \in shorter : Len(t) = n - 1}, e \in S}

Snapshots == SeqsUpTo(Incidents, MaxIncidents)

RetitledSnapshots == SeqsUpTo(RetitledIncidents, MaxIncidents)

\* a dict without keys
EmptyDict == <<>>

\* the operator emails an options form is submitted with
Emails == {"", "ops@example.com"}

ThisEntry == "entry1"

\* Records the entity registry may hold when the platform is set up.
RegistryRecords ==
    { [entity_id |-> "button.ack_a", unique_id |-> "pagerduty_ack_A", config_entry_id |-> ThisEntry],
      [entity_id |-> "button.ack_b", unique_id |-> "pagerduty_ack_B", config_entry_id |-> ThisEntry],
      [entity_id |-> "button.ack_none", unique_id |-> "pagerduty_ack_None", config_entry_id |-> ThisEntry],
      [entity_id |-> "sensor.total", unique_id |-> "pagerduty_total", config_entry_id |-> ThisEntry],
      [entity_id |-> "button.other", unique_id |-> "pagerduty_ack_A", config_entry_id |-> "entry2"] }

----------------------------------------------------------------------------
(* async_setup_entry: the sweep *)

\* er.async_entries_for_config_entry(entity_reg, entry.entry_id)
EntriesForConfigEntry(reg) == {r \in reg : r.config_entry_id = ThisEntry}

\* existing_button_entities without the test of the prefix
ExistingButtonEntitiesAnyPrefix(reg) ==
    {r \in EntriesForConfigEntry(reg) : r.unique_id # ""}

\* existing_button_entities: the records of the entry with the button prefix.
\* The dict is keyed by unique_id; the registry holds one record per unique id
\* of the platform, so the dict holds every such record.
ExistingButtonEntities(reg) ==
    {r \in EntriesForConfigEntry(reg) :
        r.unique_id # "" /\ StartsWith(r.unique_id, AckPrefix)}

\* current_triggered_ids without the test of the status
CurrentTriggeredIdsAnyStatus(incidents) ==
    {UniqueId(Get(incidents[i], "id", None)) : i \in 1..Len(incidents)}

\* current_triggered_ids: unique ids of the triggered incidents of the snapshot
CurrentTriggeredIds(incidents) ==
    {UniqueId(Get(incidents[i], "id", None)) :
        i \in {j \in 1..Len(incidents) : incidents[j].status = "triggered"}}

\* the records the clean-up loop hands to entity_reg.async_remove
Orphaned(reg, incidents) ==
    {r \in ExistingButtonEntities(reg) : r.unique_id \notin CurrentTriggeredIds(incidents)}

----------------------------------------------------------------------------
(* The config entry *)

\* current_email of the options form: the options, else the data, else ""
CurrentEmail ==
    Get(entry_options, "default_from_email", Get(entry_data, "default_from_email", ""))

\* default_from_email of async_setup_entry
DefaultFromEmail == Get(entry_data, "default_from_email", "")

----------------------------------------------------------------------------
(* PagerDutyAcknowledgeButton *)

\* __init__: the fields captured from the incident and the entry at construction
PagerDutyAcknowledgeButton(incident) ==
    [incident_id        |-> Get(incident, "id", None),
     incident_number    |-> Get(incident, "incident_number", None),
     incident_title     |-> Get(incident, "title", "Unknown"),
     service_name       |-> Get(Get(incident, "service", <<>>), "summary", "Unknown"),
     name               |-> "Acknowledge Incident #"
                                \o Format(Get(incident, "incident_number", None)),
     unique_id          |-> UniqueId(Get(incident, "id", None)),
     default_from_email |-> DefaultFromEmail]

\* _acknowledge_incident: the request handed to session.rput
AcknowledgeRequest(button) ==
    [url     |-> "/incidents/" \o Format(button.incident_id),
     json    |-> [type |-> "incident", status |-> "acknowledged"],
     headers |-> IF button.default_from_email # ""
                 THEN [From |-> button.default_from_email]
                 ELSE EmptyDict]

\* Press state of a button that was never pressed.  pc is the position of
\* async_press, remote the answer of the PUT, rputs and refreshes count the
\* PUTs sent and the refreshes requested by the press, sent holds the requests
\* of the PUTs, outcome is how async_press ended; while the PUT is in flight, tracked_at_press tells
\* whether the button was in tracked_buttons when it was pressed.
NotPressed ==
    [pc |-> "idle", remote |-> "none", rputs |-> 0, refreshes |-> 0,
     sent |-> <<>>, outcome |-> "none", tracked_at_press |-> FALSE]

\* the available property, read against the snapshot incidents
RECURSIVE AvailableFrom(_, _, _)
AvailableFrom(incidents, i, incident_id) ==
    IF i > Len(incidents) THEN FALSE
    ELSE IF Get(incidents[i], "id", None) = incident_id
         THEN incidents[i].status = "triggered"
         ELSE AvailableFrom(incidents, i + 1, incident_id)

available(h) == AvailableFrom(data, 1, buttons[h].incident_id)

----------------------------------------------------------------------------
(* async_add_remove_buttons *)

\* dict assignment d[k] = v
DictSet(d, k, v) == [x \in DOMAIN d \cup {k} |-> IF x = k THEN v ELSE d[x]]

\* a pop that leaves the keys in the dict
DictPopKept(d, ks) == d

\* dict without the keys ks (d.pop(k) for each k in ks)
DictPop(d, ks) == [x \in DOMAIN d \ ks |-> d[x]]

\* the body of the first loop without the test "incident_id not in tracked_buttons"
AddStepUntested(st, incident) ==
    IF incident.status # "triggered" THEN st
    ELSE LET incident_id == Get(incident, "id", None)
             h == Len(st.buttons) + 1
         IN  [st EXCEPT
                !.triggered = @ \cup {incident_id},
                !.buttons = Append(@, PagerDutyAcknowledgeButton(incident)),
                !.tracked = DictSet(@, incident_id, h),
                !.added = @ \cup {h}]

\* the body of the first loop writing the attributes of the incident into the
\* button it finds tracked
AddStepRefreshing(st, incident) ==
    IF incident.status # "triggered" THEN st
    ELSE LET incident_id == Get(incident, "id", None)
             seen == [st EXCEPT !.triggered = @ \cup {incident_id}]
             h == Len(st.buttons) + 1
         IN  IF incident_id \in DOMAIN st.tracked
             THEN [seen EXCEPT !.buttons[st.tracked[incident_id]] =
                                    PagerDutyAcknowledgeButton(incident)]
             ELSE [seen EXCEPT
                     !.buttons = Append(@, PagerDutyAcknowledgeButton(incident)),
                     !.tracked = DictSet(@, incident_id, h),
                     !.added = @ \cup {h}]

\* The body of the first loop for one incident: st holds the locals and the
\* objects the loop has changed so far.
AddStep(st, incident) ==
    IF incident.status # "triggered" THEN st
    ELSE LET incident_id == Get(incident, "id", None)
             seen == [st EXCEPT !.triggered = @ \cup {incident_id}]
             h == Len(st.buttons) + 1
         IN  IF incident_id \in DOMAIN st.tracked THEN seen
             ELSE [seen EXCEPT
                     !.buttons = Append(@, PagerDutyAcknowledgeButton(incident)),
                     !.tracked = DictSet(@, incident_id, h),
                     !.added = @ \cup {h}]

\* for incident in incidents: ...
RECURSIVE AddLoop(_, _, _)
AddLoop(st, incidents, i) ==
    IF i > Len(incidents) THEN st
    ELSE AddLoop(AddStep(st, incidents[i]), incidents, i + 1)

\* the second loop with its test inverted
NoLongerTriggeredInverted(tracked, triggered) == {k \in DOMAIN tracked : k \in triggered}

\* the second loop leaving alone a button whose PUT is in flight
NoLongerTriggeredIdle(tracked, triggered) ==
    {k \in DOMAIN tracked : k \notin triggered /\ press[tracked[k]].pc # "rput"}

\* The keys the second loop pops: tracked and not seen triggered.
NoLongerTriggered(tracked, triggered) == {k \in DOMAIN tracked : k \notin triggered}

\* One pass over incidents, from the dict tracked and the buttons objs built so
\* far: the dict and the buttons it leaves, the handles it gave to
\* async_add_entities (added) and the handles it popped (popped).
Reconcile(incidents, tracked, objs) ==
    LET st == AddLoop([tracked |-> tracked, buttons |-> objs,
                       triggered |-> {}, added |-> {}], incidents, 1)
        gone == NoLongerTriggered(st.tracked, st.triggered)
    IN  [tracked |-> DictPop(st.tracked, gone),
         buttons |-> st.buttons,
         added   |-> st.added,
         popped  |-> {st.tracked[k] : k \in gone}]

\* async_add_remove_buttons as a state change, run over incidents: every
\* added button is handed to the host, and one removal task is created for
\* every popped button.
RunPass(incidents) ==
    LET r == Reconcile(incidents, tracked_buttons, buttons)
        handles == 1..Len(r.buttons)
    IN  /\ Len(r.buttons) <= MaxButtons
        /\ tracked_buttons' = r.tracked
        /\ buttons' = r.buttons
        /\ platform' = [h \in handles |-> IF h \in r.added THEN "added" ELSE platform[h]]
        /\ press' = [h \in handles |-> IF h \in r.added THEN NotPressed ELSE press[h]]
        /\ removals' = [h \in handles |->
                            IF h \in r.added THEN 0
                            ELSE IF h \in r.popped THEN removals[h] + 1
                            ELSE removals[h]]
        /\ tasks' = tasks \cup r.popped
        /\ repeat' = (setup = "listening" /\ incidents = data)

----------------------------------------------------------------------------
(* Steps *)

\* async_setup_entry up to the end of the clean-up loop
Sweep ==
    /\ setup = "start"
    /\ registry' = registry \ Orphaned(registry, data)
    /\ removed_records' = Orphaned(registry, data)
    /\ setup' = "swept"
    /\ UNCHANGED <<data, tracked_buttons, buttons, platform, tasks, removals,
                   press, refresh_pending, repeat, entry_data, entry_options>>

\* the rest of async_setup_entry: tracked_buttons = {}, the initial pass,
\* and the registration of the listener
InitialPass ==
    /\ setup = "swept"
    /\ RunPass(data)
    /\ setup' = "listening"
    /\ UNCHANGED <<registry, data, refresh_pending, removed_records,
                   entry_data, entry_options>>

\* the coordinator finishes a refresh with no listener registered: the
\* snapshot is stored and async_add_remove_buttons is not called
DeliverUnheard(snapshots) ==
    /\ setup = "listening"
    /\ \E incidents \in snapshots : data' = incidents
    /\ refresh_pending' = FALSE
    /\ UNCHANGED <<registry, setup, removed_records, entry_data, entry_options,
                   tracked_buttons, buttons, platform, tasks, removals, press,
                   repeat>>

\* the coordinator finishes a refresh and the listener repeats the clean-up of
\* the registry before its pass
DeliverSweeping(snapshots) ==
    /\ setup = "listening"
    /\ \E incidents \in snapshots :
        /\ data' = incidents
        /\ registry' = registry \ Orphaned(registry, incidents)
        /\ removed_records' = removed_records \cup Orphaned(registry, incidents)
        /\ RunPass(incidents)
    /\ refresh_pending' = FALSE
    /\ UNCHANGED <<setup, entry_data, entry_options>>

\* The coordinator finishes a refresh: it stores the fetched snapshot, one of
\* snapshots, and calls its listeners, async_add_remove_buttons among them.
Deliver(snapshots) ==
    /\ setup = "listening"
    /\ \E incidents \in snapshots :
        /\ data' = incidents
        /\ RunPass(incidents)
    /\ refresh_pending' = FALSE
    /\ UNCHANGED <<registry, setup, removed_records, entry_data, entry_options>>

CoordinatorUpdate == Deliver(Snapshots)

CoordinatorUpdateRetitled == Deliver(RetitledSnapshots)

\* The options form is submitted: async_step_init creates the entry of the
\* options flow, which becomes entry.options.
AsyncStepInit ==
    /\ \E email \in Emails :
        /\ entry_options' = [default_from_email |-> email]
        /\ entry_options' # entry_options
    /\ UNCHANGED <<registry, data, setup, tracked_buttons, buttons, platform,
                   tasks, removals, press, refresh_pending, removed_records,
                   repeat, entry_data>>

\* A task created by hass.async_create_task(button.async_remove(...)) runs:
\* the host lets go of the button.
RunRemoveTask ==
    /\ \E h \in tasks :
        /\ tasks' = tasks \ {h}
        /\ platform' = [platform EXCEPT ![h] = "removed"]
    /\ UNCHANGED <<registry, data, setup, tracked_buttons, buttons, removals,
                   press, refresh_pending, removed_records, repeat,
                   entry_data, entry_options>>

\* what no step of async_press assigns
PressFrame == <<registry, data, setup, tracked_buttons, buttons, platform,
                tasks, removals, removed_records, repeat, entry_data,
                entry_options>>

\* the buttons a press was started on
Pressed == {h \in 1..Len(press) : press[h] # NotPressed}

\* async_press up to its first await: the executor job is submitted and
\* _acknowledge_incident sends the PUT.  The host presses a button it holds;
\* a run presses each button at most once.
AsyncPress ==
    /\ \E h \in 1..Len(buttons) :
        /\ platform[h] = "added"
        /\ press[h] = NotPressed
        /\ Cardinality(Pressed) < MaxPresses
        /\ press' = [press EXCEPT ![h].pc = "rput", ![h].rputs = @ + 1,
                                  ![h].sent = Append(@, AcknowledgeRequest(buttons[h])),
                                  ![h].tracked_at_press = (removals[h] = 0)]
    /\ UNCHANGED PressFrame
    /\ UNCHANGED refresh_pending

\* the PUT succeeded and async_press returns without asking for a refresh
PressAcknowledgedNoRefresh ==
    /\ \E h \in 1..Len(buttons) :
        /\ press[h].pc = "rput"
        /\ press' = [press EXCEPT ![h].pc = "refresh", ![h].remote = "ok",
                                  ![h].tracked_at_press = FALSE]
    /\ UNCHANGED PressFrame
    /\ UNCHANGED refresh_pending

\* the PUT succeeded and async_press drops its own button from tracked_buttons
\* before it requests the refresh
PressAcknowledgedPops ==
    /\ \E h \in 1..Len(buttons) :
        /\ press[h].pc = "rput"
        /\ press' = [press EXCEPT ![h].pc = "refresh", ![h].remote = "ok",
                                  ![h].refreshes = @ + 1,
                                  ![h].tracked_at_press = FALSE]
        /\ tracked_buttons' = DictPop(tracked_buttons, {buttons[h].incident_id})
    /\ refresh_pending' = TRUE
    /\ UNCHANGED <<registry, data, setup, buttons, platform, tasks, removals,
                   removed_records, repeat, entry_data, entry_options>>

\* the PUT succeeded: async_press logs and requests the coordinator refresh
PressAcknowledged ==
    /\ \E h \in 1..Len(buttons) :
        /\ press[h].pc = "rput"
        /\ press' = [press EXCEPT ![h].pc = "refresh", ![h].remote = "ok",
                                  ![h].refreshes = @ + 1,
                                  ![h].tracked_at_press = FALSE]
    /\ refresh_pending' = TRUE
    /\ UNCHANGED PressFrame

\* the PUT failed and the except clause only logs
PressFailedSwallowed ==
    /\ \E h \in 1..Len(buttons) :
        /\ press[h].pc = "rput"
        /\ press' = [press EXCEPT ![h].pc = "idle", ![h].remote = "error",
                                  ![h].outcome = "returned",
                                  ![h].tracked_at_press = FALSE]
    /\ UNCHANGED PressFrame
    /\ UNCHANGED refresh_pending

\* the PUT failed and is sent again
PressFailedRetried ==
    /\ \E h \in 1..Len(buttons) :
        /\ press[h].pc = "rput"
        /\ press[h].rputs < 2
        /\ press' = [press EXCEPT ![h].rputs = @ + 1,
                                  ![h].sent = Append(@, AcknowledgeRequest(buttons[h]))]
    /\ UNCHANGED PressFrame
    /\ UNCHANGED refresh_pending

\* the PUT failed: the except clause logs and re-raises
PressFailed ==
    /\ \E h \in 1..Len(buttons) :
        /\ press[h].pc = "rput"
        /\ press' = [press EXCEPT ![h].pc = "idle", ![h].remote = "error",
                                  ![h].outcome = "raised",
                                  ![h].tracked_at_press = FALSE]
    /\ UNCHANGED PressFrame
    /\ UNCHANGED refresh_pending

\* await coordinator.async_request_refresh() returns: async_press returns
PressReturn ==
    /\ \E h \in 1..Len(buttons) :
        /\ press[h].pc = "refresh"
        /\ press' = [press EXCEPT ![h].pc = "idle", ![h].outcome = "returned"]
    /\ UNCHANGED PressFrame
    /\ UNCHANGED refresh_pending

----------------------------------------------------------------------------
(* Specifications *)

\* the state async_setup_entry is entered in, but for registry and data
Fresh ==
    /\ setup = "start"
    /\ tracked_buttons = <<>>
    /\ buttons = <<>>
    /\ platform = <<>>
    /\ tasks = {}
    /\ removals = <<>>
    /\ press = <<>>
    /\ refresh_pending = FALSE
    /\ removed_records = {}
    /\ repeat = FALSE

\* the entry async_step_user creates: its data holds no default_from_email
NewEntry ==
    /\ entry_data = EmptyDict
    /\ entry_options = EmptyDict

Init ==
    /\ registry = RegistryRecords
    /\ data \in Snapshots
    /\ NewEntry
    /\ Fresh

Next ==
    \/ Sweep
    \/ InitialPass
    \/ CoordinatorUpdate
    \/ RunRemoveTask
    \/ AsyncPress
    \/ PressAcknowledged
    \/ PressFailed
    \/ PressReturn

Spec == Init /\ [][Next]_vars

\* The refresh async_press requested is carried out: the coordinator fetches,
\* stores the snapshot and calls the listener.
RefreshRuns == refresh_pending /\ CoordinatorUpdate

\* Spec with the requested refresh and its listener call scheduled fairly
SpecFair == Spec /\ WF_vars(RefreshRuns)

\* The set-up alone, over every registry.
InitSweep ==
    /\ registry \in SUBSET RegistryRecords
    /\ data \in Snapshots
    /\ NewEntry
    /\ Fresh

NextSweep ==
    \/ Sweep
    \/ InitialPass

SpecSweep == InitSweep /\ [][NextSweep]_vars

\* The buttons and the options flow: an entry with or without an email in its
\* data (an entry of an earlier version), the options form, the set-up and
\* the presses.
InitOptions ==
    /\ registry = RegistryRecords
    /\ data \in Snapshots
    /\ entry_data \in {EmptyDict, [default_from_email |-> "old@example.com"]}
    /\ entry_options = EmptyDict
    /\ Fresh

NextOptions ==
    \/ AsyncStepInit
    \/ Sweep
    \/ InitialPass
    \/ AsyncPress
    \/ PressAcknowledged
    \/ PressFailed
    \/ PressReturn

SpecOptions == InitOptions /\ [][NextOptions]_vars

\* The passes alone, over snapshots whose titles change.
InitRetitled ==
    /\ registry = RegistryRecords
    /\ data \in RetitledSnapshots
    /\ NewEntry
    /\ Fresh

NextRetitled ==
    \/ Sweep
    \/ InitialPass
    \/ CoordinatorUpdateRetitled
    \/ RunRemoveTask

SpecRetitled == InitRetitled /\ [][NextRetitled]_vars

----------------------------------------------------------------------------
(* Properties *)

Handles == 1..Len(buttons)

\* ids of the triggered entries of a snapshot, an entry without "id" counting
\* under None, the value incident.get("id") gives
TriggeredIds(incidents) ==
    {Get(incidents[i], "id", None) :
        i \in {j \in 1..Len(incidents) : incidents[j].status = "triggered"}}

\* ids that occur in a snapshot at all
PresentIds(incidents) == {Get(incidents[i], "id", None) : i \in 1..Len(incidents)}

\* the buttons of an incident id that the host holds
Live(incident_id) ==
    {h \in Handles : buttons[h].incident_id = incident_id /\ platform[h] = "added"}

\* C1: once a pass has returned, the keys of tracked_buttons are exactly the
\* ids of the triggered entries of the snapshot the pass ran over, whether the
\* other ids changed status or left the snapshot.
C1_Completeness ==
    setup = "listening" => DOMAIN tracked_buttons = TriggeredIds(data)

\* C1 witness: a pass has popped one button whose incident changed status and
\* one whose incident left the snapshot, and still tracks nothing else.
C1_Witness ==
    /\ setup = "listening"
    /\ \E h \in Handles :
        /\ removals[h] = 1
        /\ buttons[h].incident_id \in PresentIds(data) \ TriggeredIds(data)
    /\ \E h \in Handles :
        /\ removals[h] = 1
        /\ buttons[h].incident_id \notin PresentIds(data)

\* C2 (as claimed): after every pass no incident id has two buttons the host
\* holds, and every id triggered in the reconciled snapshot has exactly one.
C2_OneLiveButtonPerId ==
    setup = "listening" =>
        /\ \A h \in Handles :
            buttons[h].incident_id # None => Cardinality(Live(buttons[h].incident_id)) <= 1
        /\ \A k \in TriggeredIds(data) \ {None} : Cardinality(Live(k)) = 1

\* C3: a pass over the snapshot the pass before it ran over constructs no
\* button, creates no removal task and leaves tracked_buttons as it was.
C3_Idempotent ==
    [][(CoordinatorUpdate /\ data' = data) =>
          /\ buttons' = buttons
          /\ platform' = platform
          /\ removals' = removals
          /\ tasks' = tasks
          /\ tracked_buttons' = tracked_buttons]_vars

\* C3 witness: a second pass over one snapshot has run while a button is tracked
\* and another is awaiting its removal.
C3_Witness ==
    /\ repeat
    /\ DOMAIN tracked_buttons # {}
    /\ tasks # {}

\* the incident id a unique id with the button prefix was derived from, as text
DerivedId(unique_id) == SubSeq(unique_id, Len(AckPrefix) + 1, Len(unique_id))

\* C4: the sweep removes exactly the records of the config entry that carry the
\* button prefix and whose derived incident id is the id of no triggered
\* incident of the initial snapshot.
C4_SweepRemovesOrphans ==
    setup = "swept" =>
        removed_records =
            {r \in registry \cup removed_records :
                /\ r.config_entry_id = ThisEntry
                /\ StartsWith(r.unique_id, AckPrefix)
                /\ DerivedId(r.unique_id) \notin {Format(k) : k \in TriggeredIds(data)}}

\* C4 witness: three button records, the incident of one of them triggered: the
\* sweep has removed the other two.
C4_Witness ==
    /\ setup = "swept"
    /\ data = << [id |-> PyStr("B"), status |-> "triggered", title |-> "t1"] >>
    /\ {r.unique_id : r \in removed_records} = {"pagerduty_ack_A", "pagerduty_ack_None"}
    /\ \E r \in registry : r.unique_id = "pagerduty_ack_B"

\* C5: no step removes from the registry a record whose unique id lacks the
\* button prefix.
C5_OtherRecordsKept ==
    [][\A r \in registry : ~StartsWith(r.unique_id, AckPrefix) => r \in registry']_vars

\* C5 witness: the sweep has removed a record and a record without the prefix
\* is still in the registry.
C5_Witness ==
    /\ setup = "swept"
    /\ removed_records # {}
    /\ \E r \in registry :
        r.config_entry_id = ThisEntry /\ ~StartsWith(r.unique_id, AckPrefix)

\* C6: the step in which the PUT of a press fails ends async_press in an error,
\* requests no refresh, creates no removal task and changes neither
\* tracked_buttons nor what the host holds.
C6_FailureLeavesButton ==
    [][\A h \in Handles :
          (press[h].pc = "rput" /\ press'[h].remote = "error") =>
              /\ press'[h].outcome = "raised"
              /\ press'[h].refreshes = 0
              /\ refresh_pending' = refresh_pending
              /\ tracked_buttons' = tracked_buttons
              /\ platform' = platform
              /\ tasks' = tasks
              /\ removals' = removals]_vars

\* C6 witness: the PUT of a tracked button failed; the button is still tracked
\* and held by the host.
C6_Witness ==
    \E h \in Handles :
        /\ press[h].remote = "error"
        /\ press[h].outcome = "raised"
        /\ buttons[h].incident_id \in DOMAIN tracked_buttons
        /\ tracked_buttons[buttons[h].incident_id] = h
        /\ platform[h] = "added"
        /\ removals[h] = 0

\* C7: a press requests a refresh only once its PUT has succeeded, and a press
\* whose PUT has succeeded has requested exactly one.
C7_RefreshOnSuccess ==
    \A h \in Handles :
        /\ press[h].refreshes > 0 => press[h].remote = "ok"
        /\ press[h].remote = "ok" => press[h].refreshes = 1 /\ press[h].rputs = 1

\* C7 witness: a press whose PUT succeeded has returned.
C7_Witness ==
    \E h \in Handles : press[h].remote = "ok" /\ press[h].outcome = "returned"

\* C8: while the PUT of a button is in flight, a delivered snapshot in which
\* its incident is not triggered leaves the incident out of tracked_buttons:
\* the pass has popped it without waiting for the PUT.
C8_DestroyedInFlight ==
    \A h \in Handles :
        (setup = "listening" /\ press[h].pc = "rput"
            /\ buttons[h].incident_id \notin TriggeredIds(data))
        => /\ buttons[h].incident_id \notin DOMAIN tracked_buttons
           /\ removals[h] = 1

\* C8 witness: a PUT is in flight for a button that was tracked when it was
\* pressed and that a pass has popped since.
C8_Witness ==
    \E h \in Handles :
        /\ press[h].pc = "rput"
        /\ press[h].tracked_at_press
        /\ removals[h] = 1
        /\ buttons[h].incident_id \notin TriggeredIds(data)
        /\ buttons[h].incident_id \notin DOMAIN tracked_buttons

\* C9 (as claimed): when the PUT of a button pressed while tracked resolves
\* after a pass has popped the button, async_press does not raise, whether the
\* PUT succeeded or failed.
C9_NoRaiseAfterDestroy ==
    [][\A h \in Handles :
          (press[h].pc = "rput" /\ press[h].tracked_at_press /\ removals[h] > 0
              /\ press'[h].pc # "rput")
              => press'[h].outcome # "raised"]_vars

\* C10 (as claimed): a triggered entry without an id is skipped: no button is
\* constructed or tracked for it, and the keys of tracked_buttons are the ids of
\* the triggered entries that have one.
C10_MalformedSkipped ==
    setup = "listening" =>
        /\ None \notin DOMAIN tracked_buttons
        /\ \A h \in Handles : buttons[h].incident_id # None
        /\ DOMAIN tracked_buttons = TriggeredIds(data) \ {None}

\* the handles a step constructs
NewHandles == (Len(buttons) + 1)..Len(buttons')

\* a snapshot holds two entries of one id, the first not triggered, a later
\* one triggered
MixedDuplicate(incidents, incident_id) ==
    \E i, j \in 1..Len(incidents) :
        /\ i < j
        /\ Get(incidents[i], "id", None) = incident_id
        /\ Get(incidents[j], "id", None) = incident_id
        /\ incidents[i].status # "triggered"
        /\ incidents[j].status = "triggered"

\* C11: no step, whatever entries of one id the snapshot repeats, constructs
\* two buttons for one incident id.
C11_OneButtonPerIdPerPass ==
    [][\A h1, h2 \in NewHandles :
          buttons'[h1].incident_id = buttons'[h2].incident_id => h1 = h2]_vars

\* C11 witness: a pass has run over a snapshot that holds an id twice, in two
\* statuses, and a single button was ever constructed, the one tracked for it.
C11_Witness ==
    /\ setup = "listening"
    /\ Len(buttons) = 1
    /\ MixedDuplicate(data, buttons[1].incident_id)
    /\ buttons[1].incident_id \in DOMAIN tracked_buttons
    /\ tracked_buttons[buttons[1].incident_id] = 1

\* C12 (as claimed): the PUT a press sends carries the From header exactly when
\* an operator email is configured for the entry, in its options or, failing
\* that, in its data, and the header is then that email.
C12_FromHeaderIffConfigured ==
    [][\A h \in Handles :
          (press[h].pc = "idle" /\ press'[h].pc = "rput") =>
              LET headers == press'[h].sent[Len(press'[h].sent)].headers
              IN  /\ ("From" \in DOMAIN headers) <=> (CurrentEmail # "")
                  /\ "From" \in DOMAIN headers => headers["From"] = CurrentEmail]_vars

\* C13: a press, in flight or ended, in success or in failure, has sent exactly
\* one PUT, to /incidents/<id of its own button>, with the status "acknowledged".
C13_OnePutPerPress ==
    \A h \in Handles :
        press[h] # NotPressed =>
            /\ press[h].rputs = 1
            /\ Len(press[h].sent) = 1
            /\ press[h].sent[1].url = "/incidents/" \o Format(buttons[h].incident_id)
            /\ press[h].sent[1].json = [type |-> "incident", status |-> "acknowledged"]

\* C13 witness: the presses of two buttons have ended, one in failure and one
\* in success.
C13_Witness ==
    \E h1, h2 \in Handles :
        /\ press[h1].outcome = "raised"
        /\ press[h2].outcome = "returned"
        /\ buttons[h1].incident_id # buttons[h2].incident_id

\* C14 (as claimed): in every state, the available property of every button is
\* true exactly when the current snapshot holds an entry with the button's
\* incident id whose status is "triggered"; it is false when no entry has the id.
C14_AvailableIffTriggered ==
    \A h \in Handles :
        /\ available(h) <=>
              \E i \in 1..Len(data) :
                  /\ Get(data[i], "id", None) = buttons[h].incident_id
                  /\ data[i].status = "triggered"
        /\ buttons[h].incident_id \notin PresentIds(data) => ~available(h)

\* C15: once the PUT of a press on a button has succeeded and the refresh the
\* press requested is pending, the refresh is eventually delivered, and if the
\* snapshot it delivers does not hold the button's incident as triggered, the
\* incident id is absent from tracked_buttons and a removal of the button has
\* been issued.
C15_EventualDestruction ==
    \A h \in 1..MaxButtons :
        (h \in Handles /\ press[h].remote = "ok" /\ refresh_pending)
            ~> (/\ h \in Handles
                /\ ~refresh_pending
                /\ buttons[h].incident_id \notin TriggeredIds(data) =>
                      /\ buttons[h].incident_id \notin DOMAIN tracked_buttons
                      /\ removals[h] >= 1)

\* C15 witness: the refresh of a successful press on a tracked button has
\* delivered a snapshot without the incident triggered, and the pass over it
\* has popped the button and issued its removal.
C15_Witness ==
    \E h \in Handles :
        /\ press[h].remote = "ok"
        /\ press[h].refreshes = 1
        /\ ~refresh_pending
        /\ buttons[h].incident_id \notin TriggeredIds(data)
        /\ buttons[h].incident_id \notin DOMAIN tracked_buttons
        /\ removals[h] = 1
        /\ h \in tasks

\* C16: the clean-up of the registry runs once per set-up: records are removed
\* only by the step that leaves the start of async_setup_entry, which runs
\* while no button exists and no pass has run and which is never taken again;
\* buttons are constructed and tracked_buttons is written only after it, and
\* no delivery of a snapshot changes the registry.
C16_SweepOnceBeforePasses ==
    [][/\ (registry' # registry \/ removed_records' # removed_records) =>
              /\ setup = "start" /\ setup' = "swept"
              /\ buttons = <<>> /\ buttons' = <<>>
              /\ tracked_buttons = <<>> /\ tracked_buttons' = <<>>
              /\ tasks = {} /\ tasks' = {}
       /\ setup' = "start" => setup = "start"
       /\ setup = "listening" => setup' = "listening"
       /\ (buttons' # buttons \/ tracked_buttons' # tracked_buttons) => setup # "start"
       /\ CoordinatorUpdate => (registry' = registry /\ removed_records' = removed_records)
      ]_vars

\* C16 witness: the clean-up removed records, the initial pass constructed a
\* button, and a later pass has popped a button, with records of the config
\* entry that carry the button prefix still in the registry.
C16_Witness ==
    /\ setup = "listening"
    /\ removed_records # {}
    /\ tasks # {}
    /\ tracked_buttons # <<>>
    /\ ExistingButtonEntities(registry) # {}

\* C17: a step of async_press (start with the PUT, success with the refresh
\* request, failure, return) leaves tracked_buttons as it was, and
\* tracked_buttons changes only in a pass: the initial one or the one of a
\* delivered snapshot.
C17_PressLeavesTracked ==
    [][/\ (\E h \in Handles : press'[h] # press[h]) => tracked_buttons' = tracked_buttons
       /\ tracked_buttons' # tracked_buttons => (InitialPass \/ CoordinatorUpdate)
      ]_vars

\* C17 witness: the presses of two buttons interleaved with a pass: one press
\* has returned on a button still tracked, the PUT of the other is in flight on
\* a button a pass popped after the press started.
C17_Witness ==
    \E h1, h2 \in Handles :
        /\ press[h1].pc = "rput"
        /\ press[h1].tracked_at_press
        /\ removals[h1] = 1
        /\ press[h2].outcome = "returned"
        /\ buttons[h2].incident_id \in DOMAIN tracked_buttons
        /\ tracked_buttons[buttons[h2].incident_id] = h2

\* C18: for an incident id tracked before a step and triggered in the snapshot
\* after it, the step keeps the same button under the id, issues no removal of
\* it and constructs no button for the id; and no step changes an attribute a
\* button captured at construction (incident number, title, service name, name).
C18_NoMetadataRefresh ==
    [][/\ \A k \in DOMAIN tracked_buttons :
              k \in TriggeredIds(data') =>
                  /\ k \in DOMAIN tracked_buttons'
                  /\ tracked_buttons'[k] = tracked_buttons[k]
                  /\ removals'[tracked_buttons[k]] = removals[tracked_buttons[k]]
                  /\ tracked_buttons[k] \notin tasks'
                  /\ \A n \in NewHandles : buttons'[n].incident_id # k
       /\ \A h \in Handles : buttons'[h] = buttons[h]
      ]_vars

\* C18 witness: a pass has kept the button of a triggered incident whose
\* entry in the current snapshot carries another incident number, another
\* title and another service name than the button captured.
C18_Witness ==
    /\ setup = "listening"
    /\ \E k \in DOMAIN tracked_buttons :
        /\ removals[tracked_buttons[k]] = 0
        /\ k \in TriggeredIds(data)
        /\ \A i \in 1..Len(data) :
            Get(data[i], "id", None) = k =>
                /\ data[i].incident_number # buttons[tracked_buttons[k]].incident_number
                /\ data[i].title # buttons[tracked_buttons[k]].incident_title
                /\ data[i].service.summary # buttons[tracked_buttons[k]].service_name

\* C19 (as claimed): after a pass, while its snapshot is the current one, every
\* button that tracked_buttons holds reports available = true, and every button
\* a pass popped whose incident id is not tracked reports available = false,
\* the snapshots with one id in several statuses included.
C19_AvailableAfterPass ==
    setup = "listening" =>
        \A h \in Handles :
            LET k == buttons[h].incident_id
            IN  /\ (k \in DOMAIN tracked_buttons /\ tracked_buttons[k] = h) => available(h)
                /\ (removals[h] > 0 /\ k \notin DOMAIN tracked_buttons) => ~available(h)

\* C20: in every state each button handed to the host either is the value
\* tracked_buttons holds under its incident id, with no removal issued for it,
\* or is not tracked and has had exactly one removal issued for it.
C20_TrackedOrRemovedOnce ==
    \A h \in Handles :
        LET k == buttons[h].incident_id
            tracked == k \in DOMAIN tracked_buttons /\ tracked_buttons[k] = h
        IN  \/ tracked /\ removals[h] = 0 /\ h \notin tasks
            \/ ~tracked /\ removals[h] = 1

\* C20 witness: the first button of an incident was popped and its removal has
\* run, a second button of the same incident is tracked, and passes have run
\* since over a snapshot equal to the one before.
C20_Witness ==
    \E h1, h2 \in Handles :
        /\ h1 # h2
        /\ buttons[h1].incident_id = buttons[h2].incident_id
        /\ removals[h1] = 1
        /\ platform[h1] = "removed"
        /\ buttons[h2].incident_id \in DOMAIN tracked_buttons
        /\ tracked_buttons[buttons[h2].incident_id] = h2
        /\ repeat

====
